---------------------------- MODULE Spec2Model ----------------------------
(* Model of the Twilio webhook Lambda (handler.py): signature check,       *)
(* allow-list, command parsing, media ingestion, read-modify-write of the   *)
(* per-sender log in S3, action dispatch and e-mail notification.           *)
(*                                                                          *)
(* Text is a sequence of one-symbol strings.  Input text that the code      *)
(* inspects character by character (phone numbers, bodies, content types,   *)
(* NumMedia) is spelled out in characters; fixed literals that the code     *)
(* only emits ("logs/", ".log", "media/") are single symbols.               *)
EXTENDS Integers, Sequences, FiniteSets, TLC

VARIABLES env, s3, preexisting, inv, nreq, hist

vars == <<env, s3, preexisting, inv, nreq, hist>>

---------------------------------------------------------------------------
(* Bounds of the model *)

\* concurrent Lambda invocations
NumProcs == 2
\* requests delivered in one behaviour
MaxRequests == 2
\* largest NumMedia a delivery announces
MaxMedia == 3

\* longest message body enumerated for parse_actions
MaxBody == 5

\* longest field value enumerated for validate_twilio_signature
MaxValue == 2

Procs == 1..NumProcs

---------------------------------------------------------------------------
(* Text helpers (Python str operations used by the code) *)

TAB == "\t"
NL == "\n"
SP == " "

Whitespace == {SP, TAB, NL}
Digits == <<"0", "1", "2", "3", "4", "5", "6", "7", "8", "9">>
DigitSet == {Digits[k] : k \in 1..10}
Upper == <<"A", "B", "C", "D", "E", "F", "G", "H", "I", "J", "K", "L", "M",
           "N", "O", "P", "Q", "R", "S", "T", "U", "V", "W", "X", "Y", "Z">>
Lower == <<"a", "b", "c", "d", "e", "f", "g", "h", "i", "j", "k", "l", "m",
           "n", "o", "p", "q", "r", "s", "t", "u", "v", "w", "x", "y", "z">>
Letters == {Upper[k] : k \in 1..26} \cup {Lower[k] : k \in 1..26}

\* the characters of the model in code-point order
CharOrder == <<TAB, NL, SP, "+", ",", "-", ".", "/">> \o Digits \o <<":">>
             \o Upper \o <<"_">> \o Lower

CharCode(c) == CHOOSE k \in 1..Len(CharOrder) : CharOrder[k] = c

\* a < b for Python strings (lexicographic by code point)
RECURSIVE StrLess(_, _)
StrLess(a, b) ==
    IF b = <<>> THEN FALSE
    ELSE IF a = <<>> THEN TRUE
    ELSE IF Head(a) = Head(b) THEN StrLess(Tail(a), Tail(b))
    ELSE CharCode(Head(a)) < CharCode(Head(b))

\* sorted(keys)
RECURSIVE Sorted(_)
Sorted(keys) ==
    IF keys = {} THEN <<>>
    ELSE LET m == CHOOSE m \in keys : \A o \in keys \ {m} : StrLess(m, o)
         IN <<m>> \o Sorted(keys \ {m})

\* str.isalnum() of one character
IsAlnum(c) == c \in DigitSet \cup Letters

\* regex class \w
IsWord(c) == c \in DigitSet \cup Letters \cup {"_"}

\* regex class \s
IsSpace(c) == c \in Whitespace

\* sep.join(parts)
RECURSIVE Join(_, _)
Join(parts, sep) ==
    IF parts = <<>> THEN <<>>
    ELSE IF Len(parts) = 1 THEN parts[1]
    ELSE parts[1] \o sep \o Join(Tail(parts), sep)

\* text.split(sep) for a one-character separator
RECURSIVE Split(_, _)
Split(text, sep) ==
    IF \A k \in 1..Len(text) : text[k] # sep THEN <<text>>
    ELSE LET k == CHOOSE k \in 1..Len(text) :
                      text[k] = sep /\ \A m \in 1..(k - 1) : text[m] # sep
         IN <<SubSeq(text, 1, k - 1)>> \o Split(SubSeq(text, k + 1, Len(text)), sep)

\* text.strip()
RECURSIVE LStrip(_)
LStrip(text) ==
    IF text # <<>> /\ IsSpace(Head(text)) THEN LStrip(Tail(text)) ELSE text

RECURSIVE RStrip(_)
RStrip(text) ==
    IF text # <<>> /\ IsSpace(text[Len(text)])
    THEN RStrip(SubSeq(text, 1, Len(text) - 1)) ELSE text

Strip(text) == RStrip(LStrip(text))

\* filter(None, parts)
NonEmpty(parts) == SelectSeq(parts, LAMBDA x : x # <<>>)

IsPrefix(a, b) == Len(a) <= Len(b) /\ SubSeq(b, 1, Len(a)) = a

\* a occurs in b as a contiguous piece
Contains(b, a) ==
    \E k \in 0..(Len(b) - Len(a)) : SubSeq(b, k + 1, k + Len(a)) = a

\* str(n) of an integer
RECURSIVE StrNat(_)
StrNat(n) == IF n < 10 THEN <<Digits[n + 1]>>
             ELSE StrNat(n \div 10) \o <<Digits[(n % 10) + 1]>>

Str(n) == IF n < 0 THEN <<"-">> \o StrNat(0 - n) ELSE StrNat(n)

DigitVal(c) == CHOOSE k \in 0..9 : Digits[k + 1] = c

RECURSIVE NatVal(_)
NatVal(ds) == IF ds = <<>> THEN 0
              ELSE 10 * NatVal(SubSeq(ds, 1, Len(ds) - 1)) + DigitVal(ds[Len(ds)])

\* int(text): surrounding whitespace and one sign are accepted; anything
\* else that is not a non-empty run of digits raises ValueError
IntBody(text) ==
    LET t == Strip(text)
    IN IF t # <<>> /\ Head(t) \in {"+", "-"} THEN Tail(t) ELSE t

IntRaises(text) ==
    LET d == IntBody(text)
    IN d = <<>> \/ \E k \in 1..Len(d) : d[k] \notin DigitSet

IntValue(text) ==
    LET t == Strip(text)
        v == NatVal(IntBody(text))
    IN IF t # <<>> /\ Head(t) = "-" THEN 0 - v ELSE v

\* dict.get(key, default)
Get(d, key, default) == IF key \in DOMAIN d THEN d[key] ELSE default

---------------------------------------------------------------------------
(* Field names and literals *)

K_From == <<"F", "r", "o", "m">>
K_To == <<"T", "o">>
K_Body == <<"B", "o", "d", "y">>
K_MessageSid == <<"M", "e", "s", "s", "a", "g", "e", "S", "i", "d">>
K_NumMedia == <<"N", "u", "m", "M", "e", "d", "i", "a">>
K_FromCity == <<"F", "r", "o", "m", "C", "i", "t", "y">>
K_FromState == <<"F", "r", "o", "m", "S", "t", "a", "t", "e">>
K_FromCountry == <<"F", "r", "o", "m", "C", "o", "u", "n", "t", "r", "y">>
K_MediaUrl(i) == <<"M", "e", "d", "i", "a", "U", "r", "l">> \o Str(i)
K_MediaContentType(i) ==
    <<"M", "e", "d", "i", "a", "C", "o", "n", "t", "e", "n", "t", "T", "y", "p", "e">>
    \o Str(i)

T_question == <<"q", "u", "e", "s", "t", "i", "o", "n">>
T_octet == <<"a", "p", "p", "l", "i", "c", "a", "t", "i", "o", "n", "/",
             "o", "c", "t", "e", "t", "-", "s", "t", "r", "e", "a", "m">>
T_jpeg == <<"i", "m", "a", "g", "e", "/", "j", "p", "e", "g">>
T_png == <<"i", "m", "a", "g", "e", "/", "p", "n", "g">>
T_gif == <<"i", "m", "a", "g", "e", "/", "g", "i", "f">>
T_webp == <<"i", "m", "a", "g", "e", "/", "w", "e", "b", "p">>
T_mp4 == <<"v", "i", "d", "e", "o", "/", "m", "p", "4">>
T_3gpp == <<"v", "i", "d", "e", "o", "/", "3", "g", "p", "p">>
T_quicktime == <<"v", "i", "d", "e", "o", "/", "q", "u", "i", "c", "k", "t", "i", "m", "e">>

---------------------------------------------------------------------------
(* Pure functions of handler.py *)

\* The form-encoded body is a sequence of <<key, value>> pairs in the order
\* sent; event.transport tells how it travels: "plain", "base64" (decodes
\* to the same pairs) or "garbled" (flagged base64 but not decodable, so
\* b64decode/decode raises).
parse_twilio_payload_raises(event) == event.transport = "garbled"

parse_twilio_payload(event) ==
    LET pairs == event.body
        keys == {pairs[k][1] : k \in 1..Len(pairs)}
        first(key) == CHOOSE k \in 1..Len(pairs) :
                          pairs[k][1] = key /\ \A m \in 1..(k - 1) : pairs[m][1] # key
    IN [key \in keys |-> pairs[first(key)][2]]

\* base64(HMAC-SHA1(key, msg)) as a collision-free keyed function: a text
\* from which key and msg can be read back (no key holds the mark "$")
HmacSha1 == "hmac-sha1"
hmac_b64(key, msg) == <<HmacSha1>> \o key \o <<"$">> \o msg

\* a character outside ASCII
NonAscii == "é"

\* hmac.compare_digest(a, b) of two str raises TypeError when either holds
\* a character outside ASCII
compare_digest_raises(a, b) ==
    \/ \E k \in 1..Len(a) : a[k] = NonAscii
    \/ \E k \in 1..Len(b) : b[k] = NonAscii

\* string_to_sign that leaves the values out
RECURSIVE string_to_signKeysOnly(_, _, _)
string_to_signKeysOnly(s, keys, params) ==
    IF keys = <<>> THEN s
    ELSE string_to_signKeysOnly(s \o Head(keys), Tail(keys), params)

RECURSIVE string_to_sign(_, _, _)
string_to_sign(s, keys, params) ==
    IF keys = <<>> THEN s
    ELSE string_to_sign(s \o Head(keys) \o params[Head(keys)], Tail(keys), params)

validate_twilio_signature(url, params, signature, auth_token) ==
    IF signature = <<>> \/ auth_token = <<>> \/ url = <<>> THEN FALSE
    ELSE hmac_b64(auth_token, string_to_sign(url, Sorted(DOMAIN params), params))
             = signature

\* the call raises instead of returning
validate_twilio_signature_raises(url, params, signature, auth_token) ==
    /\ signature # <<>> /\ auth_token # <<>> /\ url # <<>>
    /\ compare_digest_raises(
          hmac_b64(auth_token, string_to_sign(url, Sorted(DOMAIN params), params)),
          signature)

sanitize_phone_number(phone_number) == SelectSeq(phone_number, IsAlnum)

\* end of the longest prefix of body matched by (?:/\w+)+, scanning from k
RECURSIVE WordRunEnd(_, _)
WordRunEnd(body, k) ==
    IF k < Len(body) /\ IsWord(body[k + 1]) THEN WordRunEnd(body, k + 1) ELSE k

RECURSIVE GroupsEnd(_, _)
GroupsEnd(body, k) ==
    IF k + 1 < Len(body) /\ body[k + 1] = "/" /\ IsWord(body[k + 2])
    THEN GroupsEnd(body, WordRunEnd(body, k + 1))
    ELSE k

\* re.match(r'^((?:/\w+)+)(?:\s+(.*))?$', body, re.DOTALL)
ActionsMatch(body) ==
    LET k == GroupsEnd(body, 0)
    IN k > 0 /\ (k = Len(body) \/ IsSpace(body[k + 1]))

\* parse_actions that accepts the groups whatever follows them
parse_actionsLoose(body) ==
    IF body = <<>> THEN [actions |-> <<>>, message_text |-> <<>>]
    ELSE IF GroupsEnd(body, 0) > 0
    THEN LET k == GroupsEnd(body, 0)
         IN [actions |-> NonEmpty(Split(SubSeq(body, 1, k), "/")),
             message_text |-> Strip(SubSeq(body, k + 1, Len(body)))]
    ELSE [actions |-> <<>>, message_text |-> body]

\* parse_actions that leaves the text after the groups untrimmed at its end
parse_actionsNoStrip(body) ==
    IF body = <<>> THEN [actions |-> <<>>, message_text |-> <<>>]
    ELSE IF ActionsMatch(body)
    THEN LET k == GroupsEnd(body, 0)
         IN [actions |-> NonEmpty(Split(SubSeq(body, 1, k), "/")),
             message_text |-> LStrip(SubSeq(body, k + 1, Len(body)))]
    ELSE [actions |-> <<>>, message_text |-> body]

parse_actions(body) ==
    IF body = <<>> THEN [actions |-> <<>>, message_text |-> <<>>]
    ELSE IF ActionsMatch(body)
    THEN LET k == GroupsEnd(body, 0)
         IN [actions |-> NonEmpty(Split(SubSeq(body, 1, k), "/")),
             message_text |-> Strip(SubSeq(body, k + 1, Len(body)))]
    ELSE [actions |-> <<>>, message_text |-> body]

ext_map == (T_jpeg :> <<"j", "p", "g">>) @@ (T_png :> <<"p", "n", "g">>)
        @@ (T_gif :> <<"g", "i", "f">>) @@ (T_webp :> <<"w", "e", "b", "p">>)
        @@ (T_mp4 :> <<"m", "p", "4">>) @@ (T_3gpp :> <<"3", "g", "p">>)
        @@ (T_quicktime :> <<"m", "o", "v">>)

Last(parts) == parts[Len(parts)]

extension(content_type) ==
    Get(ext_map, content_type, Last(Split(content_type, "/")))

media_s3_key(message_sid, index, content_type) ==
    <<"media/">> \o message_sid \o <<"_">> \o Str(index) \o <<".">>
    \o extension(content_type)

qa_key(message_sid) == <<"qa/">> \o message_sid \o <<"_qa.md">>

\* log_key_of that keeps one log for all senders
log_key_ofShared(from_number) == <<"logs/">> \o <<"messages">> \o <<".log">>

log_key_of(from_number) ==
    <<"logs/">> \o sanitize_phone_number(from_number) \o <<".log">>

location_of(payload) ==
    Join(NonEmpty(<<Get(payload, K_FromCity, <<>>), Get(payload, K_FromState, <<>>),
                    Get(payload, K_FromCountry, <<>>)>>), <<",">>)

\* strftime('%Y-%m-%d %H:%M:%S') of a clock that has ticked n times
strftime(n) == <<"t">> \o Str(n)

log_entry_of(timestamp, message_sid, to_number, location, actions, num_media, media_keys, message_text) ==
    timestamp \o <<TAB>> \o message_sid \o <<TAB>> \o to_number \o <<TAB>>
    \o location \o <<TAB>> \o Join(actions, <<",">>) \o <<TAB>>
    \o Str(num_media) \o <<TAB>> \o Join(media_keys, <<",">>) \o <<TAB>>
    \o message_text \o <<NL>>

\* ALLOWED_PHONE_NUMBERS from the text of the environment variable
allowed_phone_numbers(text) ==
    LET parts == Split(text, ",")
    IN {Strip(parts[k]) : k \in {m \in 1..Len(parts) : Strip(parts[m]) # <<>>}}

ACTION_PROCESSORS == {T_question}

---------------------------------------------------------------------------
(* The deployment and the deliveries it receives *)

Unset == <<>>
TheBucket == <<"bucket">>
TheAccountSid == <<"ACsid">>
TheAuthToken == <<"token">>
OtherToken == <<"guess">>
TheEmail == <<"alerts@example.com">>
TheUrl == <<"https://fn.example/">>

Phone1 == <<"+", "1">>
Phone2 == <<"+", "2">>
Stranger == <<"+", "9">>
Recipient == <<"+", "5">>
AllowedText == Phone1 \o <<",", SP>> \o Phone2

\* module-level settings read from os.environ at import
Settings(bucket, sid, token, email, allowed, url) ==
    [S3_BUCKET_NAME |-> bucket, TWILIO_ACCOUNT_SID |-> sid,
     TWILIO_AUTH_TOKEN |-> token, NOTIFICATION_EMAIL |-> email,
     ALLOWED_PHONE_NUMBERS |-> allowed_phone_numbers(allowed),
     WEBHOOK_URL |-> url]

\* complete deployments: only the optional settings vary
GoodConfigs ==
    {Settings(TheBucket, sid, TheAuthToken, email, AllowedText, TheUrl) :
        sid \in {Unset, TheAccountSid}, email \in {Unset, TheEmail}}

\* deployments that lack one required setting
BadConfigs ==
    {Settings(Unset, TheAccountSid, TheAuthToken, TheEmail, AllowedText, TheUrl),
     Settings(TheBucket, TheAccountSid, Unset, TheEmail, AllowedText, TheUrl),
     Settings(TheBucket, TheAccountSid, TheAuthToken, TheEmail, Unset, TheUrl),
     Settings(TheBucket, TheAccountSid, TheAuthToken, TheEmail, AllowedText, Unset)}

Sid1 == <<"S", "M", "1">>
Sid2 == <<"S", "M", "2">>
Hi == <<"h", "i">>
AskBody == <<"/">> \o T_question \o <<SP>> \o Hi
ManyBody == <<"/", "x", "/">> \o T_question \o <<"/">> \o T_question
TabBody == <<"a", TAB, "b">>
MediaLink == <<"https://media.example/m">>

With(f, key, value) == (key :> value) @@ f
Without(f, key) == [k \in DOMAIN f \ {key} |-> f[k]]

\* a form as the sequence of its pairs
Pairs(f) == LET keys == Sorted(DOMAIN f)
            IN [k \in 1..Len(keys) |-> <<keys[k], f[keys[k]]>>]

BaseForm(sid) ==
    (K_From :> Phone1) @@ (K_To :> Recipient) @@ (K_Body :> Hi)
    @@ (K_MessageSid :> sid) @@ (K_NumMedia :> <<"0">>)
    @@ (K_FromCity :> <<"N", "Y">>) @@ (K_FromState :> <<>>)
    @@ (K_FromCountry :> <<"U", "S">>)

\* n attachments announced; those in `linked` carry a MediaUrl; even ones
\* declare image/jpeg, odd ones declare no content type
RECURSIVE MediaForm(_, _, _)
MediaForm(f, n, linked) ==
    IF n = 0 THEN f
    ELSE LET i == n - 1
             g == IF i \in linked THEN With(f, K_MediaUrl(i), MediaLink) ELSE f
             h == IF i % 2 = 0 THEN With(g, K_MediaContentType(i), T_jpeg) ELSE g
         IN MediaForm(h, i, linked)

Forms ==
    \* senders
    {With(BaseForm(Sid1), K_From, v) : v \in {Phone2, Stranger, <<>>}}
    \cup {Without(BaseForm(Sid1), K_From)}
    \* bodies
    \cup {With(BaseForm(sid), K_Body, b) :
            sid \in {Sid1, Sid2}, b \in {Hi, AskBody, ManyBody, TabBody}}
    \cup {Without(BaseForm(Sid1), K_Body), Without(BaseForm(Sid1), K_MessageSid)}
    \* media
    \cup {With(BaseForm(Sid1), K_NumMedia, v) : v \in {<<>>, <<"x">>, <<"-", "1">>}}
    \cup {Without(BaseForm(Sid1), K_NumMedia)}
    \cup {MediaForm(With(BaseForm(Sid1), K_NumMedia, Str(n)), n, linked) :
            n \in 1..MaxMedia, linked \in SUBSET (0..(MaxMedia - 1))}

Signed(form, token) ==
    hmac_b64(token, string_to_sign(TheUrl, Sorted(DOMAIN form), form))

Delivery(form, signature, transport) ==
    [body |-> Pairs(form), signature |-> signature, transport |-> transport]

\* genuine deliveries of every form, and for the base form the ways a
\* delivery can be unauthentic or undecodable
Events ==
    {Delivery(f, Signed(f, TheAuthToken), "plain") : f \in Forms}
    \cup {Delivery(BaseForm(Sid1), sig, "plain") :
            sig \in {<<>>, Signed(BaseForm(Sid1), OtherToken),
                     Signed(BaseForm(Sid2), TheAuthToken),
                     [Signed(BaseForm(Sid1), TheAuthToken) EXCEPT ![1] = NonAscii]}}
    \cup {Delivery(BaseForm(Sid1), Signed(BaseForm(Sid1), TheAuthToken), t) :
            t \in {"base64", "garbled"}}
    \cup {[body |-> Pairs(BaseForm(Sid1)) \o <<<<K_From, Stranger>>>>,
           signature |-> Signed(BaseForm(Sid1), TheAuthToken),
           transport |-> "plain"]}

\* two plain accepted deliveries of Phone1: a text with one attachment,
\* and a question
SimpleForms ==
    {MediaForm(With(BaseForm(Sid1), K_NumMedia, Str(1)), 1, {0}),
     With(BaseForm(Sid2), K_Body, AskBody)}

SimpleEvents == {Delivery(f, Signed(f, TheAuthToken), "plain") : f \in SimpleForms}

\* a log left by an earlier delivery of Phone1
OldEntry == log_entry_of(strftime(0), <<"S", "M", "0">>, Recipient, <<>>, <<>>,
                         0, <<>>, <<"o", "l", "d">>)
OldStore == log_key_of(Phone1) :> OldEntry
NoStore == [k \in {} |-> <<>>]

---------------------------------------------------------------------------
(* One Lambda invocation: its position in handler() and its locals.        *)
(* did lists, in order, the operations the invocation has performed.       *)

NoEvent == [body |-> <<>>, signature |-> <<>>, transport |-> "none"]
NoResponse == [statusCode |-> 0, body |-> ""]

Idle ==
    [pc |-> "idle", event |-> NoEvent, payload |-> <<>>, verdict |-> "unset",
     from_number |-> <<>>, log_key |-> <<>>, timestamp |-> <<>>, body |-> <<>>,
     message_sid |-> <<>>, to_number |-> <<>>, location |-> <<>>,
     actions |-> <<>>, message_text |-> <<>>, num_media |-> 0, i |-> 0,
     media_keys |-> <<>>, media_log |-> <<>>, log_entry |-> <<>>,
     existing_log |-> <<>>,
     updated_log |-> <<>>, context_log |-> <<>>, j |-> 1, results |-> <<>>,
     response |-> NoResponse, did |-> <<>>]

ConfigError == [statusCode |-> 500, body |-> "Server configuration error"]
InvalidSignature == [statusCode |-> 403, body |-> "Invalid signature"]
MissingFrom == [statusCode |-> 400, body |-> "Missing From number"]
Unauthorized == [statusCode |-> 403, body |-> "Unauthorized"]
ProcessingError == [statusCode |-> 500, body |-> "Error processing message"]
EmptyTwiml ==
    [statusCode |-> 200,
     body |-> "<?xml version=\"1.0\" encoding=\"UTF-8\"?><Response></Response>"]

InFlight(p) == inv[p].pc \notin {"idle", "done"}

\* the invocation returns: its locals stay as they were at the return
Return(p, response, ops) ==
    inv' = [inv EXCEPT ![p].pc = "done", ![p].response = response,
                       ![p].did = @ \o ops]

\* an except clause that acknowledges the delivery all the same
RaiseAcknowledged(p, ops) == Return(p, EmptyTwiml, ops \o <<"except">>)

\* the except clause of handler(): any exception raised inside the try
Raise(p, ops) == Return(p, ProcessingError, ops \o <<"except">>)

TypeOK ==
    /\ env \in GoodConfigs \cup BadConfigs
    /\ nreq \in 0..MaxRequests
    /\ \A p \in Procs :
          /\ inv[p].pc \in {"idle", "config", "decode", "validate", "from", "allow",
                            "extract", "media", "read", "write", "dispatch",
                            "notify", "done", "call", "returned", "raised"}
          /\ inv[p].verdict \in {"unset", "valid", "invalid"}

Init ==
    /\ env \in GoodConfigs \cup BadConfigs
    /\ s3 \in {NoStore, OldStore}
    /\ preexisting = s3
    /\ inv = [p \in Procs |-> Idle]
    /\ nreq = 0
    /\ hist = <<>>

\* the platform starts an invocation for a delivery, in the lowest free slot
Receive(p, events) ==
    /\ nreq < MaxRequests
    /\ ~InFlight(p)
    /\ \A q \in Procs : q < p => InFlight(q)
    /\ \E e \in events :
          inv' = [inv EXCEPT ![p] = [Idle EXCEPT !.pc = "config", !.event = e]]
    /\ nreq' = nreq + 1
    /\ UNCHANGED <<env, s3, preexisting, hist>>

\* one delivery at a time: the last one is any of Events, the ones before
\* it are simple deliveries that fill the store
ReceiveAlone(p) ==
    /\ \A q \in Procs : ~InFlight(q)
    /\ Receive(p, IF nreq + 1 < MaxRequests THEN SimpleEvents ELSE Events)

\* deliveries may overlap
ReceiveConcurrent(p) == Receive(p, SimpleEvents)

\* CheckConfig that forgets the callback URL
CheckConfigPartial(p) ==
    /\ inv[p].pc = "config"
    /\ IF \/ env.S3_BUCKET_NAME = Unset
          \/ env.TWILIO_AUTH_TOKEN = Unset
          \/ env.ALLOWED_PHONE_NUMBERS = {}
       THEN Return(p, ConfigError, <<"config_error">>)
       ELSE inv' = [inv EXCEPT ![p].pc = "decode"]
    /\ UNCHANGED <<env, s3, preexisting, nreq, hist>>

CheckConfig(p) ==
    /\ inv[p].pc = "config"
    /\ IF \/ env.S3_BUCKET_NAME = Unset
          \/ env.TWILIO_AUTH_TOKEN = Unset
          \/ env.ALLOWED_PHONE_NUMBERS = {}
          \/ env.WEBHOOK_URL = Unset
       THEN Return(p, ConfigError, <<"config_error">>)
       ELSE inv' = [inv EXCEPT ![p].pc = "decode"]
    /\ UNCHANGED <<env, s3, preexisting, nreq, hist>>

Decode(p) ==
    /\ inv[p].pc = "decode"
    /\ IF parse_twilio_payload_raises(inv[p].event)
       THEN Raise(p, <<"decode_fault">>)
       ELSE inv' = [inv EXCEPT ![p].pc = "validate",
                               ![p].payload = parse_twilio_payload(inv[p].event),
                               ![p].did = @ \o <<"decode">>]
    /\ UNCHANGED <<env, s3, preexisting, nreq, hist>>

\* Validate that records the verdict but lets the request through
ValidateLenient(p) ==
    /\ inv[p].pc = "validate"
    /\ inv' = [inv EXCEPT
          ![p].pc = "from",
          ![p].verdict =
              IF validate_twilio_signature(env.WEBHOOK_URL, inv[p].payload,
                                           inv[p].event.signature,
                                           env.TWILIO_AUTH_TOKEN)
              THEN "valid" ELSE "invalid",
          ![p].did = @ \o <<"validate">>]
    /\ UNCHANGED <<env, s3, preexisting, nreq, hist>>

Validate(p) ==
    /\ inv[p].pc = "validate"
    /\ IF validate_twilio_signature_raises(env.WEBHOOK_URL, inv[p].payload,
                                           inv[p].event.signature,
                                           env.TWILIO_AUTH_TOKEN)
       THEN Raise(p, <<"validate_fault">>)
       ELSE IF validate_twilio_signature(env.WEBHOOK_URL, inv[p].payload,
                                         inv[p].event.signature,
                                         env.TWILIO_AUTH_TOKEN)
       THEN inv' = [inv EXCEPT ![p].pc = "from", ![p].verdict = "valid",
                               ![p].did = @ \o <<"validate">>]
       ELSE inv' = [inv EXCEPT ![p].pc = "done", ![p].verdict = "invalid",
                               ![p].response = InvalidSignature,
                               ![p].did = @ \o <<"validate">>]
    /\ UNCHANGED <<env, s3, preexisting, nreq, hist>>

\* CheckFrom that goes on to the message fields without the allow-list
CheckFromUnlisted(p) ==
    /\ inv[p].pc = "from"
    /\ LET from_number == Get(inv[p].payload, K_From, <<>>)
       IN IF from_number = <<>>
          THEN inv' = [inv EXCEPT ![p].pc = "done", ![p].response = MissingFrom,
                                  ![p].from_number = from_number,
                                  ![p].did = @ \o <<"from">>]
          ELSE inv' = [inv EXCEPT ![p].pc = "extract",
                                  ![p].from_number = from_number,
                                  ![p].did = @ \o <<"from">>]
    /\ UNCHANGED <<env, s3, preexisting, nreq, hist>>

CheckFrom(p) ==
    /\ inv[p].pc = "from"
    /\ LET from_number == Get(inv[p].payload, K_From, <<>>)
       IN IF from_number = <<>>
          THEN inv' = [inv EXCEPT ![p].pc = "done", ![p].response = MissingFrom,
                                  ![p].from_number = from_number,
                                  ![p].did = @ \o <<"from">>]
          ELSE inv' = [inv EXCEPT ![p].pc = "allow",
                                  ![p].from_number = from_number,
                                  ![p].did = @ \o <<"from">>]
    /\ UNCHANGED <<env, s3, preexisting, nreq, hist>>

\* CheckAllowed that lets every sender through
CheckAllowedOpen(p) ==
    /\ inv[p].pc = "allow"
    /\ inv' = [inv EXCEPT ![p].pc = "extract", ![p].did = @ \o <<"allow">>]
    /\ UNCHANGED <<env, s3, preexisting, nreq, hist>>

CheckAllowed(p) ==
    /\ inv[p].pc = "allow"
    /\ IF inv[p].from_number \notin env.ALLOWED_PHONE_NUMBERS
       THEN Return(p, Unauthorized, <<"allow">>)
       ELSE inv' = [inv EXCEPT ![p].pc = "extract", ![p].did = @ \o <<"allow">>]
    /\ UNCHANGED <<env, s3, preexisting, nreq, hist>>

\* the local work between the allow-list check and the media loop:
\* log key, timestamp, message fields, parse_actions, int(NumMedia)
Extract(p) ==
    /\ inv[p].pc = "extract"
    /\ LET payload == inv[p].payload
           body == Get(payload, K_Body, <<>>)
           parsed == parse_actions(body)
           counted == K_NumMedia \in DOMAIN payload
       IN IF counted /\ IntRaises(payload[K_NumMedia])
          THEN Raise(p, <<"parse", "int_fault">>)
          ELSE inv' = [inv EXCEPT
                  ![p].pc = "media",
                  ![p].log_key = log_key_of(inv[p].from_number),
                  ![p].timestamp = strftime(nreq),
                  ![p].message_sid = Get(payload, K_MessageSid, <<>>),
                  ![p].to_number = Get(payload, K_To, <<>>),
                  ![p].body = body,
                  ![p].location = location_of(payload),
                  ![p].actions = parsed.actions,
                  ![p].message_text = parsed.message_text,
                  ![p].num_media = IF counted THEN IntValue(payload[K_NumMedia])
                                   ELSE 0,
                  ![p].i = 0,
                  ![p].did = @ \o <<"parse">>]
    /\ UNCHANGED <<env, s3, preexisting, nreq, hist>>

\* what download_and_save_media can do for attachment i
MediaOutcomes(payload, i) ==
    IF Get(payload, K_MediaUrl(i), <<>>) = <<>> THEN {"no_url"}
    ELSE IF env.TWILIO_ACCOUNT_SID = Unset \/ env.TWILIO_AUTH_TOKEN = Unset
    THEN {"no_credentials"}
    ELSE {"saved", "fetch_fault", "media_put_fault"}

MediaOps(outcome) ==
    CASE outcome = "no_url" -> <<>>
      [] outcome = "no_credentials" -> <<"media_skip">>
      [] outcome = "fetch_fault" -> <<"fetch_fault">>
      [] outcome = "media_put_fault" -> <<"fetch", "media_put_fault">>
      [] outcome = "saved" -> <<"fetch", "media_put">>

\* MediaStep in which a failed fetch or store reaches the except clause
MediaStepAbort(p) ==
    /\ inv[p].pc = "media"
    /\ inv[p].i < inv[p].num_media
    /\ LET i == inv[p].i
           content_type == Get(inv[p].payload, K_MediaContentType(i), T_octet)
           s3_key == media_s3_key(inv[p].message_sid, i, content_type)
       IN \E outcome \in MediaOutcomes(inv[p].payload, i) :
             /\ IF outcome \in {"fetch_fault", "media_put_fault"}
                THEN inv' = [inv EXCEPT
                        ![p].pc = "done",
                        ![p].response = ProcessingError,
                        ![p].i = i + 1,
                        ![p].media_log = Append(@, outcome),
                        ![p].did = @ \o MediaOps(outcome) \o <<"except">>]
                ELSE inv' = [inv EXCEPT
                        ![p].i = i + 1,
                        ![p].media_log = Append(@, outcome),
                        ![p].media_keys = IF outcome = "saved"
                                          THEN Append(@, s3_key) ELSE @,
                        ![p].did = @ \o MediaOps(outcome)]
             /\ s3' = IF outcome = "saved" THEN (s3_key :> <<"bytes">>) @@ s3
                      ELSE s3
    /\ UNCHANGED <<env, preexisting, nreq, hist>>

\* one iteration of the media loop
MediaStep(p) ==
    /\ inv[p].pc = "media"
    /\ inv[p].i < inv[p].num_media
    /\ LET i == inv[p].i
           content_type == Get(inv[p].payload, K_MediaContentType(i), T_octet)
           s3_key == media_s3_key(inv[p].message_sid, i, content_type)
       IN \E outcome \in MediaOutcomes(inv[p].payload, i) :
             /\ inv' = [inv EXCEPT
                   ![p].i = i + 1,
                   ![p].media_log = Append(@, outcome),
                   ![p].media_keys = IF outcome = "saved" THEN Append(@, s3_key)
                                     ELSE @,
                   ![p].did = @ \o MediaOps(outcome)]
             /\ s3' = IF outcome = "saved" THEN (s3_key :> <<"bytes">>) @@ s3
                      ELSE s3
    /\ UNCHANGED <<env, preexisting, nreq, hist>>

\* the loop is over: build the log entry
BuildEntry(p) ==
    /\ inv[p].pc = "media"
    /\ inv[p].i >= inv[p].num_media
    /\ inv' = [inv EXCEPT
          ![p].pc = "read",
          ![p].log_entry =
              log_entry_of(inv[p].timestamp, inv[p].message_sid, inv[p].to_number,
                           inv[p].location, inv[p].actions, inv[p].num_media,
                           inv[p].media_keys, inv[p].message_text)]
    /\ UNCHANGED <<env, s3, preexisting, nreq, hist>>

\* read_log_from_s3: the content, or '' when get_object raises anything
read_log_from_s3(store, key, outcome) ==
    IF outcome = "read" THEN Get(store, key, <<>>) ELSE <<>>

ReadLog(p) ==
    /\ inv[p].pc = "read"
    /\ \E outcome \in {"read", "read_fault"} :
          inv' = [inv EXCEPT
              ![p].pc = "write",
              ![p].existing_log = read_log_from_s3(s3, inv[p].log_key, outcome),
              ![p].did = @ \o <<outcome>>]
    /\ UNCHANGED <<env, s3, preexisting, nreq, hist>>

\* the eight values that handler() formats into the log entry
EntryFields(r) ==
    <<r.timestamp, r.message_sid, r.to_number, r.location,
      Join(r.actions, <<",">>), Str(r.num_media), Join(r.media_keys, <<",">>),
      r.message_text>>

\* WriteLog in which the object is replaced although put_object raised
WriteLogTorn(p) ==
    /\ inv[p].pc = "write"
    /\ LET updated_log == inv[p].existing_log \o inv[p].log_entry
       IN \E outcome \in {"write", "write_fault"} :
             /\ s3' = (inv[p].log_key :> updated_log) @@ s3
             /\ hist' = Append(hist, [key |-> inv[p].log_key,
                                      from_number |-> inv[p].from_number,
                                      entry |-> inv[p].log_entry,
                                      fields |-> EntryFields(inv[p]),
                                      existing |-> inv[p].existing_log,
                                      before |-> Get(s3, inv[p].log_key, <<>>),
                                      after |-> updated_log])
             /\ IF outcome = "write"
                THEN inv' = [inv EXCEPT
                        ![p].pc = IF inv[p].actions # <<>> THEN "dispatch"
                                  ELSE "notify",
                        ![p].updated_log = updated_log,
                        ![p].j = 1,
                        ![p].did = @ \o <<"write">>]
                ELSE Raise(p, <<"write", "write_fault">>)
    /\ UNCHANGED <<env, preexisting, nreq>>

\* write_log_to_s3 of existing_log + log_entry; a put_object fault
\* propagates to the except clause of handler()
WriteLog(p) ==
    /\ inv[p].pc = "write"
    /\ LET updated_log == inv[p].existing_log \o inv[p].log_entry
       IN \E outcome \in {"write", "write_fault"} :
             IF outcome = "write"
             THEN /\ s3' = (inv[p].log_key :> updated_log) @@ s3
                  /\ hist' = Append(hist, [key |-> inv[p].log_key,
                                           from_number |-> inv[p].from_number,
                                           entry |-> inv[p].log_entry,
                                           fields |-> EntryFields(inv[p]),
                                           existing |-> inv[p].existing_log,
                                           before |-> Get(s3, inv[p].log_key, <<>>),
                                           after |-> updated_log])
                  /\ inv' = [inv EXCEPT
                        ![p].pc = IF inv[p].actions # <<>> THEN "dispatch"
                                  ELSE "notify",
                        ![p].updated_log = updated_log,
                        ![p].j = 1,
                        ![p].did = @ \o <<"write">>]
             ELSE /\ Raise(p, <<"write_fault">>)
                  /\ UNCHANGED <<s3, hist>>
    /\ UNCHANGED <<env, preexisting, nreq>>

\* send_email: skipped without NOTIFICATION_EMAIL; an SES fault is caught
EmailOutcomes ==
    IF env.NOTIFICATION_EMAIL = Unset THEN {"email_skip"}
    ELSE {"email", "email_fault"}

\* process_question_action: the inference call may raise; the transcript
\* write is absorbed by _log_question_answer; then the answer is e-mailed
QuestionOutcomes ==
    {<<"invoke_fault">>}
    \cup {<<"invoke", qa, mail>> : qa \in {"qa_put", "qa_put_fault"},
                                   mail \in EmailOutcomes}

\* Dispatch in which a raising handler ends the loop
DispatchAbort(p) ==
    /\ inv[p].pc = "dispatch"
    /\ LET j == inv[p].j
           action == inv[p].actions[j]
           next == IF j = Len(inv[p].actions) THEN "notify" ELSE "dispatch"
       IN IF action \in ACTION_PROCESSORS
          THEN \E ops \in QuestionOutcomes :
                  /\ inv' = [inv EXCEPT
                        ![p].pc = IF ops = <<"invoke_fault">> THEN "notify"
                                  ELSE next,
                        ![p].j = j + 1,
                        ![p].context_log = inv[p].updated_log,
                        ![p].results =
                            Append(@, [action |-> action,
                                       success |-> ops # <<"invoke_fault">>]),
                        ![p].did = @ \o ops]
                  /\ s3' = IF Len(ops) > 1 /\ ops[2] = "qa_put"
                           THEN (qa_key(inv[p].message_sid) :> <<"transcript">>) @@ s3
                           ELSE s3
          ELSE /\ inv' = [inv EXCEPT ![p].pc = next, ![p].j = j + 1,
                                     ![p].did = @ \o <<"no_processor">>]
               /\ s3' = s3
    /\ UNCHANGED <<env, preexisting, nreq, hist>>

\* Dispatch that hands the handlers the log as it was read
DispatchStale(p) ==
    /\ inv[p].pc = "dispatch"
    /\ LET j == inv[p].j
           action == inv[p].actions[j]
           next == IF j = Len(inv[p].actions) THEN "notify" ELSE "dispatch"
       IN IF action \in ACTION_PROCESSORS
          THEN \E ops \in QuestionOutcomes :
                  /\ inv' = [inv EXCEPT
                        ![p].pc = next,
                        ![p].j = j + 1,
                        ![p].context_log = inv[p].existing_log,
                        ![p].results =
                            Append(@, [action |-> action,
                                       success |-> ops # <<"invoke_fault">>]),
                        ![p].did = @ \o ops]
                  /\ s3' = IF Len(ops) > 1 /\ ops[2] = "qa_put"
                           THEN (qa_key(inv[p].message_sid) :> <<"transcript">>) @@ s3
                           ELSE s3
          ELSE /\ inv' = [inv EXCEPT ![p].pc = next, ![p].j = j + 1,
                                     ![p].did = @ \o <<"no_processor">>]
               /\ s3' = s3
    /\ UNCHANGED <<env, preexisting, nreq, hist>>

\* Dispatch in which a failed transcript write fails the handler
DispatchQaStrict(p) ==
    /\ inv[p].pc = "dispatch"
    /\ LET j == inv[p].j
           action == inv[p].actions[j]
           next == IF j = Len(inv[p].actions) THEN "notify" ELSE "dispatch"
       IN IF action \in ACTION_PROCESSORS
          THEN \E ops \in QuestionOutcomes :
                  LET failed == Len(ops) > 1 /\ ops[2] = "qa_put_fault"
                  IN /\ inv' = [inv EXCEPT
                           ![p].pc = next,
                           ![p].j = j + 1,
                           ![p].context_log = inv[p].updated_log,
                           ![p].results =
                               Append(@, [action |-> action,
                                          success |-> ops # <<"invoke_fault">>
                                                      /\ ~failed]),
                           ![p].did = @ \o IF failed THEN SubSeq(ops, 1, 2) ELSE ops]
                     /\ s3' = IF Len(ops) > 1 /\ ops[2] = "qa_put"
                              THEN (qa_key(inv[p].message_sid) :> <<"transcript">>) @@ s3
                              ELSE s3
          ELSE /\ inv' = [inv EXCEPT ![p].pc = next, ![p].j = j + 1,
                                     ![p].did = @ \o <<"no_processor">>]
               /\ s3' = s3
    /\ UNCHANGED <<env, preexisting, nreq, hist>>

\* one iteration of the loop of process_actions
Dispatch(p) ==
    /\ inv[p].pc = "dispatch"
    /\ LET j == inv[p].j
           action == inv[p].actions[j]
           next == IF j = Len(inv[p].actions) THEN "notify" ELSE "dispatch"
       IN IF action \in ACTION_PROCESSORS
          THEN \E ops \in QuestionOutcomes :
                  /\ inv' = [inv EXCEPT
                        ![p].pc = next,
                        ![p].j = j + 1,
                        ![p].context_log = inv[p].updated_log,
                        ![p].results =
                            Append(@, [action |-> action,
                                       success |-> ops # <<"invoke_fault">>]),
                        ![p].did = @ \o ops]
                  /\ s3' = IF Len(ops) > 1 /\ ops[2] = "qa_put"
                           THEN (qa_key(inv[p].message_sid) :> <<"transcript">>) @@ s3
                           ELSE s3
          ELSE /\ inv' = [inv EXCEPT ![p].pc = next, ![p].j = j + 1,
                                     ![p].did = @ \o <<"no_processor">>]
               /\ s3' = s3
    /\ UNCHANGED <<env, preexisting, nreq, hist>>

\* Notify that lets a failed send reach the except clause
NotifyStrict(p) ==
    /\ inv[p].pc = "notify"
    /\ \E mail \in EmailOutcomes :
          IF mail = "email" THEN Return(p, EmptyTwiml, <<mail, "respond">>)
          ELSE Raise(p, <<mail>>)
    /\ UNCHANGED <<env, s3, preexisting, nreq, hist>>

\* the notification and the 200 response
Notify(p) ==
    /\ inv[p].pc = "notify"
    /\ \E mail \in EmailOutcomes : Return(p, EmptyTwiml, <<mail, "respond">>)
    /\ UNCHANGED <<env, s3, preexisting, nreq, hist>>

Step(p) ==
    \/ CheckConfig(p) \/ Decode(p) \/ Validate(p) \/ CheckFrom(p)
    \/ CheckAllowed(p) \/ Extract(p) \/ MediaStep(p) \/ BuildEntry(p)
    \/ ReadLog(p) \/ WriteLog(p) \/ Dispatch(p) \/ Notify(p)

\* deliveries handled one after another (single writer)
Next == \E p \in Procs : ReceiveAlone(p) \/ Step(p)

Spec == Init /\ [][Next]_vars

\* deliveries handled by overlapping invocations, on a complete deployment
InitRace == Init /\ env \in GoodConfigs

NextRace == \E p \in Procs : ReceiveConcurrent(p) \/ Step(p)

SpecRace == InitRace /\ [][NextRace]_vars

\* a second identity that differs from Phone1 only by the plus sign
Bare1 == <<"1">>
CollidingText == Phone1 \o <<",">> \o Bare1

\* complete deployments with two allow-listed senders
SenderConfigs ==
    {Settings(TheBucket, TheAccountSid, TheAuthToken, TheEmail, text, TheUrl) :
        text \in {AllowedText, CollidingText}}

\* the simple deliveries, from each allow-listed sender
SenderEvents ==
    {Delivery(With(f, K_From, n), Signed(With(f, K_From, n), TheAuthToken), "plain") :
        f \in SimpleForms, n \in env.ALLOWED_PHONE_NUMBERS}

ReceiveFromSenders(p) == Receive(p, SenderEvents)

InitSenders ==
    /\ env \in SenderConfigs
    /\ s3 = NoStore /\ preexisting = NoStore
    /\ inv = [p \in Procs |-> Idle]
    /\ nreq = 0
    /\ hist = <<>>

NextSenders == \E p \in Procs : ReceiveFromSenders(p) \/ Step(p)

\* overlapping deliveries from the allow-listed senders
SpecSenders == InitSenders /\ [][NextSenders]_vars

---------------------------------------------------------------------------
(* Functions of handler.py called on their own: the arguments are the      *)
(* locals of an invocation at pc "call", the results its locals afterwards *)

\* all texts over chars of length at most n
RECURSIVE Texts(_, _)
Texts(chars, n) ==
    IF n = 0 THEN {<<>>}
    ELSE LET shorter == Texts(chars, n - 1)
         IN shorter \cup {Append(t, c) : t \in {x \in shorter : Len(x) = n - 1},
                                         c \in chars}

TheSettings ==
    Settings(TheBucket, TheAccountSid, TheAuthToken, TheEmail, AllowedText, TheUrl)

\* one call in slot 1
OneCall(calls) ==
    /\ env = TheSettings
    /\ s3 = NoStore /\ preexisting = NoStore
    /\ nreq = 0 /\ hist = <<>>
    /\ inv \in {[p \in Procs |-> IF p = 1 THEN c ELSE Idle] : c \in calls}

\* two calls, in slots 1 and 2
TwoCalls(pairs) ==
    /\ env = TheSettings
    /\ s3 = NoStore /\ preexisting = NoStore
    /\ nreq = 0 /\ hist = <<>>
    /\ inv \in {[p \in Procs |-> IF p = 1 THEN c[1] ELSE IF p = 2 THEN c[2] ELSE Idle] :
                  c \in pairs}

\* word characters, slash, whitespace, a non-word character
BodyChars == {"a", "b", "/", SP, NL, "-"}

HelloBody == <<"/", "a", "/", "b", SP, "h", "e", "l", "l", "o", SP,
               "w", "o", "r", "l", "d">>
NoSlashBody == <<"n", "o", SP, "s", "l", "a", "s", "h", SP, "h", "e", "r", "e">>

Bodies == Texts(BodyChars, MaxBody) \cup {HelloBody, NoSlashBody}

\* actions, message_text, _ = parse_actions(body)
ParseCall(p) ==
    /\ inv[p].pc = "call"
    /\ LET parsed == parse_actions(inv[p].body)
       IN inv' = [inv EXCEPT ![p].pc = "returned",
                             ![p].actions = parsed.actions,
                             ![p].message_text = parsed.message_text,
                             ![p].did = <<"parse">>]
    /\ UNCHANGED <<env, s3, preexisting, nreq, hist>>

InitParse == OneCall({[Idle EXCEPT !.pc = "call", !.body = b] : b \in Bodies})

NextParse == \E p \in Procs : ParseCall(p)

SpecParse == InitParse /\ [][NextParse]_vars

\* validate_twilio_signature(url, params, signature, auth_token) with the
\* URL and the secret of the deployment
SigCall(p) ==
    /\ inv[p].pc = "call"
    /\ IF validate_twilio_signature_raises(env.WEBHOOK_URL, inv[p].payload,
                                           inv[p].event.signature,
                                           env.TWILIO_AUTH_TOKEN)
       THEN inv' = [inv EXCEPT ![p].pc = "raised", ![p].did = <<"validate_fault">>]
       ELSE inv' = [inv EXCEPT
               ![p].pc = "returned",
               ![p].verdict =
                   IF validate_twilio_signature(env.WEBHOOK_URL, inv[p].payload,
                                                inv[p].event.signature,
                                                env.TWILIO_AUTH_TOKEN)
                   THEN "valid" ELSE "invalid",
               ![p].did = <<"validate">>]
    /\ UNCHANGED <<env, s3, preexisting, nreq, hist>>

SigKeys == {<<"a">>, <<"a", "b">>}
SigValues == Texts({"a", "b"}, MaxValue)
SigParams == UNION {[keys -> SigValues] : keys \in SUBSET SigKeys}
SigUrls == {<<>>, <<"u">>}
SigTokens == {<<>>, TheAuthToken}

\* the arguments of a call: the mapping, its items in insertion order, and
\* the signature
SigArgs(params, items, signature) ==
    [Idle EXCEPT !.pc = "call", !.payload = params,
                 !.event = [body |-> items, signature |-> signature,
                            transport |-> "plain"]]

Reverse(seq) == [k \in 1..Len(seq) |-> seq[Len(seq) + 1 - k]]

\* the calls that go with the call of params under its own signature: the
\* signature with one character changed, or empty; one value changed; the
\* items inserted in another order; (with URL and secret set) any other
\* mapping
SigVariants(url, token, params) ==
    LET sig == hmac_b64(token, string_to_sign(url, Sorted(DOMAIN params), params))
        items == Pairs(params)
    IN {SigArgs(params, items, [sig EXCEPT ![k] = c]) :
           k \in 1..Len(sig), c \in {"a", NonAscii}}
       \cup {SigArgs(params, items, <<>>), SigArgs(params, Reverse(items), sig)}
       \cup {SigArgs([params EXCEPT ![key] = v], Pairs([params EXCEPT ![key] = v]), sig) :
               key \in DOMAIN params, v \in SigValues}
       \cup {SigArgs(other, Pairs(other), sig) :
               other \in IF url # <<>> /\ token # <<>> THEN SigParams ELSE {}}

InitSig ==
    \E url \in SigUrls, token \in SigTokens, params \in SigParams :
       /\ env = Settings(TheBucket, TheAccountSid, token, TheEmail, AllowedText, url)
       /\ s3 = NoStore /\ preexisting = NoStore
       /\ nreq = 0 /\ hist = <<>>
       /\ \E other \in SigVariants(url, token, params) :
             inv = [p \in Procs |->
                      IF p = 1
                      THEN SigArgs(params, Pairs(params),
                                   hmac_b64(token, string_to_sign(url,
                                                Sorted(DOMAIN params), params)))
                      ELSE IF p = 2 THEN other ELSE Idle]

NextSig == \E p \in Procs : SigCall(p)

SpecSig == InitSig /\ [][NextSig]_vars

---------------------------------------------------------------------------
(* Observations used by the properties *)

Ops(p) == {inv[p].did[k] : k \in 1..Len(inv[p].did)}

Done(p) == inv[p].pc = "done"

\* op occurs in the trace, and first does at position Pos(trace, op)
Pos(trace, op) == CHOOSE k \in 1..Len(trace) :
                      trace[k] = op /\ \A m \in 1..(k - 1) : trace[m] # op

\* every operation handler() performs after the signature check
AfterSignature ==
    {"from", "allow", "parse", "int_fault", "media_skip", "fetch", "fetch_fault",
     "media_put", "media_put_fault", "read", "read_fault", "write", "write_fault",
     "invoke", "invoke_fault", "qa_put", "qa_put_fault", "no_processor",
     "email", "email_fault", "email_skip", "respond"}

\* every operation handler() performs after the allow-list check
AfterAllowList == AfterSignature \ {"from", "allow"}

IsLogKey(key) == key # <<>> /\ Head(key) = "logs/"

AllowedLogKeys == {log_key_of(n) : n \in env.ALLOWED_PHONE_NUMBERS}

---------------------------------------------------------------------------
(* Properties *)

\* C1: a request whose signature check returned false is answered 403
\* 'Invalid signature' and has performed nothing that follows the check (no
\* allow-list check, store access, media fetch, dispatch or notification);
\* every operation after the check, the main-log write included, is
\* performed only by a request whose verdict was true, after the check.
C1_SignatureGate ==
    \A p \in Procs :
       /\ inv[p].verdict = "invalid" =>
             /\ Done(p)
             /\ inv[p].response = InvalidSignature
             /\ Ops(p) \cap AfterSignature = {}
       /\ \A k \in 1..Len(inv[p].did) :
             inv[p].did[k] \in AfterSignature =>
                /\ inv[p].verdict = "valid"
                /\ \E m \in 1..(k - 1) : inv[p].did[m] = "validate"

C1_Witness ==
    \E p \in Procs : Done(p) /\ inv[p].verdict = "invalid"
                     /\ inv[p].response.statusCode = 403

\* C2: a request with a valid signature whose From is missing or empty is
\* answered 400, and one whose sender is not allow-listed 403, before
\* anything that follows the allow-list check; every log object written
\* has the key of an allow-listed sender.
C2_AllowListGate ==
    /\ \A p \in Procs :
          /\ ("from" \in Ops(p) /\ inv[p].from_number = <<>>) =>
                /\ Done(p) /\ inv[p].response = MissingFrom
                /\ Ops(p) \cap (AfterAllowList \cup {"allow"}) = {}
          /\ ("allow" \in Ops(p)
                /\ inv[p].from_number \notin env.ALLOWED_PHONE_NUMBERS) =>
                /\ Done(p) /\ inv[p].response = Unauthorized
                /\ Ops(p) \cap AfterAllowList = {}
          /\ Ops(p) \cap AfterAllowList # {} =>
                inv[p].from_number \in env.ALLOWED_PHONE_NUMBERS
    /\ \A k \in 1..Len(hist) : hist[k].key \in AllowedLogKeys
    /\ \A key \in DOMAIN s3 :
          IsLogKey(key) => key \in AllowedLogKeys \/ key \in DOMAIN preexisting

C2_Witness ==
    \E p \in Procs : Done(p) /\ inv[p].verdict = "valid"
                     /\ inv[p].from_number = Stranger
                     /\ inv[p].response = Unauthorized

\* C3: a finished request has exactly one of the fixed responses: 403 (400
\* for a missing sender) when rejected, 500 when a required setting is
\* absent or a fault reached the except clause, which happens only before
\* the log is written, and 200 with the empty Response body when it
\* responded; 200 is returned only after the main-log write completed.
C3_TerminalResponses ==
    \A p \in Procs : Done(p) =>
       LET r == inv[p].response
           rejected == \/ inv[p].verdict = "invalid"
                       \/ ("from" \in Ops(p) /\ inv[p].from_number = <<>>)
                       \/ ("allow" \in Ops(p) /\ inv[p].from_number
                              \notin env.ALLOWED_PHONE_NUMBERS)
           errored == "except" \in Ops(p) \/ "config_error" \in Ops(p)
           responded == "respond" \in Ops(p)
       IN /\ Cardinality({x \in {"rejected", "errored", "responded"} :
                            \/ (x = "rejected" /\ rejected)
                            \/ (x = "errored" /\ errored)
                            \/ (x = "responded" /\ responded)}) = 1
          /\ rejected => r \in {InvalidSignature, MissingFrom, Unauthorized}
          /\ rejected => (r.statusCode = 400 <=> inv[p].from_number = <<>>
                                                 /\ inv[p].verdict = "valid")
          /\ errored => r.statusCode = 500 /\ "write" \notin Ops(p)
          /\ responded => r = EmptyTwiml
          /\ r.statusCode = 200 => "write" \in Ops(p) /\ responded

C3_Witness ==
    \E p \in Procs : Done(p) /\ "write_fault" \in Ops(p)
                     /\ inv[p].response = ProcessingError

\* C4: once the main-log write of a request completed, the request can
\* only be dispatching, notifying or finished; while unfinished its next
\* step is enabled whatever fails, and when finished its response is 200
\* with the empty Response body, also after a handler raised, a send
\* failed or no recipient was configured.
C4_LoggedThenResponded ==
    \A p \in Procs : "write" \in Ops(p) =>
       /\ inv[p].pc \in {"dispatch", "notify", "done"}
       /\ "except" \notin Ops(p)
       /\ inv[p].pc = "dispatch" => ENABLED Dispatch(p)
       /\ inv[p].pc = "notify" => ENABLED Notify(p)
       /\ Done(p) => inv[p].response = EmptyTwiml

C4_Witness ==
    \E p \in Procs :
       /\ Done(p) /\ "write" \in Ops(p)
       /\ "invoke_fault" \in Ops(p)
       /\ Ops(p) \cap {"email_fault", "email_skip"} # {}
       /\ inv[p].response = EmptyTwiml

\* C5: no request whose main-log read or write faulted returns 200: the
\* fault surfaces as a 500.
C5_StoreFaultIs500 ==
    \A p \in Procs :
       (Done(p) /\ Ops(p) \cap {"read_fault", "write_fault"} # {}) =>
          inv[p].response.statusCode = 500

\* the lines of a newline-terminated text
Lines(text) == LET parts == Split(text, NL)
               IN SubSeq(parts, 1, Len(parts) - 1)

NewlineTerminated(text) == text = <<>> \/ text[Len(text)] = NL

FieldsOf(line) == Split(line, TAB)

Plain(field) == \A k \in 1..Len(field) : field[k] \notin {TAB, NL}

WritesTo(key) == SelectSeq(hist, LAMBDA r : r.key = key)

\* C6: with deliveries handled one after another, a log that was absent at
\* the start holds, after N completed main-log writes whose fields carry
\* no tab or newline, exactly N newline-terminated lines of 8 tab-separated
\* fields, those of the N deliveries in order; and every write stored the
\* content stored before it followed by the new entry.
C6_AppendSemantics ==
    \A key \in AllowedLogKeys \ DOMAIN preexisting :
       LET writes == WritesTo(key)
       IN (writes # <<>> /\ \A k \in 1..Len(writes) :
                               \A m \in 1..8 : Plain(writes[k].fields[m])) =>
             /\ NewlineTerminated(s3[key])
             /\ Len(Lines(s3[key])) = Len(writes)
             /\ \A k \in 1..Len(writes) :
                   /\ FieldsOf(Lines(s3[key])[k]) = writes[k].fields
                   /\ Len(FieldsOf(Lines(s3[key])[k])) = 8
                   /\ writes[k].after = writes[k].before \o writes[k].entry

C6_Witness ==
    \E key \in AllowedLogKeys \ DOMAIN preexisting :
       /\ Len(WritesTo(key)) = 2
       /\ \A k \in 1..2 : \A m \in 1..8 : Plain(WritesTo(key)[k].fields[m])
       /\ Len(Lines(s3[key])) = 2
       /\ FieldsOf(Lines(s3[key])[2]) = WritesTo(key)[2].fields

\* two deliveries for the same log that overlapped and were both answered 200
BothAnswered(p, q) ==
    /\ p # q /\ nreq = 2
    /\ Done(p) /\ Done(q)
    /\ inv[p].response = EmptyTwiml /\ inv[q].response = EmptyTwiml
    /\ inv[p].log_key = inv[q].log_key

\* C7 (every interleaving): after two overlapping deliveries of one sender
\* were both answered 200, the stored log still begins with the content
\* stored before them and contains the entry of at least one of them.
C7_RaceKeepsPrior ==
    \A p, q \in Procs : BothAnswered(p, q) =>
       LET log == s3[inv[p].log_key]
       IN /\ IsPrefix(Get(preexisting, inv[p].log_key, <<>>), log)
          /\ Contains(log, inv[p].log_entry) \/ Contains(log, inv[q].log_entry)

\* C7 (some interleaving): both deliveries read the same prior log, both
\* were answered 200, and the stored log holds the entry of only one.
C7_LostUpdate ==
    \E p, q \in Procs :
       /\ BothAnswered(p, q)
       /\ "read" \in Ops(p) /\ "read" \in Ops(q)
       /\ inv[p].existing_log = inv[q].existing_log
       /\ inv[p].existing_log = Get(preexisting, inv[p].log_key, <<>>)
       /\ Contains(s3[inv[p].log_key], inv[p].log_entry)
       /\ ~Contains(s3[inv[p].log_key], inv[q].log_entry)

Calls(trace) == SelectSeq(trace, LAMBDA op : op \in {"invoke", "invoke_fault"})

DispatchOps(trace) ==
    SelectSeq(trace, LAMBDA op : op \in {"invoke", "invoke_fault", "no_processor"})

Registered(tokens) == SelectSeq(tokens, LAMBDA a : a \in ACTION_PROCESSORS)

\* C8: of the tokens process_actions has gone through, each one with a
\* registered handler caused exactly one invocation, in list order, also
\* after an earlier handler raised; results holds one entry per invocation
\* in that order, succeeded iff the handler did not raise; a token without
\* handler caused no invocation and no entry.
C8_DispatchIsolation ==
    \A p \in Procs : "write" \in Ops(p) =>
       LET gone == IF inv[p].pc = "dispatch" THEN inv[p].j - 1
                   ELSE Len(inv[p].actions)
           tokens == SubSeq(inv[p].actions, 1, gone)
           ops == DispatchOps(inv[p].did)
           calls == Calls(inv[p].did)
           results == inv[p].results
       IN /\ Len(ops) = gone
          /\ \A k \in 1..gone :
                tokens[k] \in ACTION_PROCESSORS <=> ops[k] # "no_processor"
          /\ Len(calls) = Len(Registered(tokens))
          /\ Len(results) = Len(calls)
          /\ \A k \in 1..Len(results) :
                /\ results[k].action = Registered(tokens)[k]
                /\ results[k].success = (calls[k] = "invoke")

C8_Witness ==
    \E p \in Procs :
       /\ Done(p)
       /\ inv[p].actions = <<<<"x">>, T_question, T_question>>
       /\ inv[p].results = <<[action |-> T_question, success |-> FALSE],
                             [action |-> T_question, success |-> TRUE]>>

\* C9: a handler is invoked only after the main-log write of its request
\* completed, and the log it is handed is the content read for the sender
\* followed by the entry of this request as last line, which is what the
\* store holds; the command field of that entry lists the tokens of the
\* body (question for the body '/question hi').
C9_DispatchSeesUpdatedLog ==
    \A p \in Procs : Calls(inv[p].did) # <<>> =>
       LET did == inv[p].did
           firstCall == CHOOSE k \in 1..Len(did) :
                           /\ did[k] \in {"invoke", "invoke_fault"}
                           /\ \A m \in 1..(k - 1) :
                                 did[m] \notin {"invoke", "invoke_fault"}
           lines == Lines(inv[p].context_log)
       IN /\ "write" \in Ops(p) /\ Pos(did, "write") < firstCall
          /\ inv[p].context_log = inv[p].existing_log \o inv[p].log_entry
          /\ inv[p].context_log = s3[inv[p].log_key]
          /\ lines # <<>>
          /\ Last(lines) \o <<NL>> = inv[p].log_entry
          /\ FieldsOf(Last(lines))[5]
                = Join(parse_actions(inv[p].body).actions, <<",">>)
          /\ inv[p].body = AskBody => FieldsOf(Last(lines))[5] = T_question

C9_Witness ==
    \E p \in Procs :
       /\ Done(p) /\ inv[p].body = AskBody /\ "invoke" \in Ops(p)
       /\ inv[p].existing_log # <<>>
       /\ Len(Lines(inv[p].context_log)) = 2

NoCredentials == env.TWILIO_ACCOUNT_SID = Unset \/ env.TWILIO_AUTH_TOKEN = Unset

\* the keys of the attachments saved so far, in index order
RECURSIVE SavedKeys(_, _)
SavedKeys(r, n) ==
    IF n = 0 THEN <<>>
    ELSE SavedKeys(r, n - 1)
         \o IF r.media_log[n] = "saved"
            THEN <<media_s3_key(r.message_sid, n - 1,
                                Get(r.payload, K_MediaContentType(n - 1), T_octet))>>
            ELSE <<>>

\* C10: the media references of a request are exactly the keys of the
\* attachments whose fetch and store both succeeded, in index order, and
\* those objects are stored; a failed attachment never ends the request
\* (the loop goes through all n attachments and the except clause is never
\* reached from it); without provider credentials nothing is fetched and
\* the list is empty; the media field of the logged entry is that list.
C10_MediaIndependent ==
    \A p \in Procs : "parse" \in Ops(p) =>
       LET r == inv[p]
           n == Len(r.media_log)
       IN /\ n = r.i
          /\ r.media_keys = SavedKeys(r, n)
          /\ \A k \in 1..n :
                /\ r.media_log[k] = "saved" =>
                      /\ Get(r.payload, K_MediaUrl(k - 1), <<>>) # <<>>
                      /\ media_s3_key(r.message_sid, k - 1,
                            Get(r.payload, K_MediaContentType(k - 1), T_octet))
                            \in DOMAIN s3
                /\ r.media_log[k] = "no_url" <=>
                      Get(r.payload, K_MediaUrl(k - 1), <<>>) = <<>>
          /\ NoCredentials =>
                /\ r.media_keys = <<>>
                /\ Ops(p) \cap {"fetch", "fetch_fault"} = {}
          /\ ("int_fault" \notin Ops(p) /\ r.pc # "media") =>
                n = IF r.num_media > 0 THEN r.num_media ELSE 0
          /\ "except" \in Ops(p) =>
                r.did[Pos(r.did, "except") - 1] \in {"int_fault", "write_fault"}
          /\ "write" \in Ops(p) =>
                FieldsOf(Lines(r.log_entry)[1])[7] = Join(r.media_keys, <<",">>)

C10_Witness ==
    \E p \in Procs :
       /\ Done(p) /\ inv[p].response = EmptyTwiml
       /\ inv[p].num_media = 3
       /\ inv[p].media_log = <<"saved", "fetch_fault", "saved">>
       /\ Len(inv[p].media_keys) = 2

\* a required setting (bucket, shared secret, allow-list, callback URL) is absent
MissingRequired ==
    \/ env.S3_BUCKET_NAME = Unset \/ env.TWILIO_AUTH_TOKEN = Unset
    \/ env.ALLOWED_PHONE_NUMBERS = {} \/ env.WEBHOOK_URL = Unset

\* C11: when a required setting is absent, every request that was received
\* is either still at the configuration check or finished with 500 'Server
\* configuration error' having performed nothing else: no decoding, no
\* signature check, no store access, media fetch, dispatch or notification;
\* the store stays as it was.
C11_ConfigShortCircuit ==
    MissingRequired =>
       /\ \A p \in Procs :
             /\ inv[p].pc \in {"idle", "config", "done"}
             /\ Done(p) => /\ inv[p].response = ConfigError
                           /\ inv[p].did = <<"config_error">>
             /\ inv[p].payload = <<>> /\ inv[p].verdict = "unset"
       /\ s3 = preexisting
       /\ hist = <<>>

C11_Witness ==
    /\ env.WEBHOOK_URL = Unset
    /\ nreq = 2
    /\ \E p \in Procs : Done(p) /\ inv[p].response = ConfigError
                         /\ inv[p].event \in Events \ SimpleEvents

Returned(p) == inv[p].pc = "returned"

\* a token: one or more word characters
IsToken(t) == t # <<>> /\ \A k \in 1..Len(t) : IsWord(t[k])

\* /t1/t2.../tn
RECURSIVE SlashJoin(_)
SlashJoin(tokens) ==
    IF tokens = <<>> THEN <<>>
    ELSE <<"/">> \o Head(tokens) \o SlashJoin(Tail(tokens))

\* body[1..k] is one or more /token groups, followed by the end of the
\* body or by whitespace
CommandHead(body, k) ==
    /\ k \in 1..Len(body)
    /\ body[1] = "/" /\ body[k] # "/"
    /\ \A m \in 1..k : body[m] = "/" \/ IsWord(body[m])
    /\ \A m \in 1..(k - 1) : ~(body[m] = "/" /\ body[m + 1] = "/")
    /\ k = Len(body) \/ IsSpace(body[k + 1])

\* text has no leading and no trailing whitespace
Trimmed(text) ==
    text = <<>> \/ (~IsSpace(text[1]) /\ ~IsSpace(text[Len(text)]))

\* text is rest without its leading and trailing whitespace
IsTrimOf(text, rest) ==
    /\ Trimmed(text)
    /\ \E i \in 0..Len(rest) :
          /\ i + Len(text) <= Len(rest)
          /\ SubSeq(rest, i + 1, i + Len(text)) = text
          /\ \A m \in 1..i : IsSpace(rest[m])
          /\ \A m \in (i + Len(text) + 1)..Len(rest) : IsSpace(rest[m])

\* C12: parse_actions of a body that is one or more /token groups followed
\* by the end of the body or by whitespace and any text returns the tokens
\* in order, duplicates kept, and the rest without surrounding whitespace
\* (empty when there is none); of any other body (no leading slash, empty,
\* a group with a non-word character such as /a-b) it returns no command
\* and the whole body as text.  The examples of the spec come out as given.
C12_ParseActions ==
    \A p \in Procs : Returned(p) =>
       LET body == inv[p].body
           heads == {k \in 1..Len(body) : CommandHead(body, k)}
       IN /\ heads # {} =>
                \A k \in heads :
                   /\ \A j \in 1..Len(inv[p].actions) : IsToken(inv[p].actions[j])
                   /\ SlashJoin(inv[p].actions) = SubSeq(body, 1, k)
                   /\ IsTrimOf(inv[p].message_text, SubSeq(body, k + 1, Len(body)))
          /\ heads = {} =>
                inv[p].actions = <<>> /\ inv[p].message_text = body
          /\ body = HelloBody =>
                /\ inv[p].actions = <<<<"a">>, <<"b">>>>
                /\ inv[p].message_text = SubSeq(HelloBody, 6, 16)
          /\ body = <<"/", "a">> =>
                inv[p].actions = <<<<"a">>>> /\ inv[p].message_text = <<>>
          /\ body = <<"/", "a", "-", "b">> =>
                inv[p].actions = <<>> /\ inv[p].message_text = body

C12_Witness ==
    \E p \in Procs :
       /\ Returned(p)
       /\ inv[p].body = <<"/", "a", "/", "a", NL>>
       /\ inv[p].actions = <<<<"a">>, <<"a">>>>
       /\ inv[p].message_text = <<>>

\* every returned token is a non-empty word without slash
TokensAreWords(p) ==
    \A j \in 1..Len(inv[p].actions) :
       /\ IsToken(inv[p].actions[j])
       /\ \A k \in 1..Len(inv[p].actions[j]) : inv[p].actions[j][k] # "/"

\* C15 (as claimed): for every body, every token returned by parse_actions
\* is a non-empty word without slash and the returned text has no leading
\* or trailing whitespace, whether or not the body carried commands.
C15_ParsedCommand ==
    \A p \in Procs : Returned(p) =>
       TokensAreWords(p) /\ Trimmed(inv[p].message_text)

\* C15 (amended): every token returned by parse_actions is a non-empty word
\* without slash; the returned text has no leading or trailing whitespace
\* when the body carried commands, and is the whole body, untrimmed, when
\* it carried none.
C15_ParsedCommandAmended ==
    \A p \in Procs : Returned(p) =>
       /\ TokensAreWords(p)
       /\ inv[p].actions # <<>> => Trimmed(inv[p].message_text)
       /\ inv[p].actions = <<>> => inv[p].message_text = inv[p].body

C15_Witness ==
    \E p \in Procs :
       /\ Returned(p)
       /\ inv[p].body = <<"/", "a", SP, "b", NL>>
       /\ inv[p].actions = <<<<"a">>>> /\ inv[p].message_text = <<"b">>

\* the call is over, by a return or by an exception
Over(p) == inv[p].pc \in {"returned", "raised"}

\* a and b have the same length and differ in exactly one place
OneChanged(a, b) ==
    /\ Len(a) = Len(b)
    /\ Cardinality({k \in 1..Len(a) : a[k] # b[k]}) = 1

\* f and g have the same keys and differ in the value of exactly one
OneValueChanged(f, g) ==
    /\ DOMAIN f = DOMAIN g
    /\ Cardinality({key \in DOMAIN f : f[key] # g[key]}) = 1

SameItems(p, q) ==
    {inv[p].event.body[k] : k \in 1..Len(inv[p].event.body)}
       = {inv[q].event.body[k] : k \in 1..Len(inv[q].event.body)}

\* C13: for a URL, a secret and a mapping, once a call of
\* validate_twilio_signature returned true, the call with one character of
\* the signature changed, and the call with one value of the mapping
\* changed, return false; a call with an empty secret, URL or signature
\* returns false; calls whose mappings hold the same items inserted in
\* different orders return the same verdict.
C13_SignatureSensitive ==
    \A p, q \in Procs :
       /\ (Over(p) /\ Over(q) /\ inv[p].verdict = "valid") =>
             /\ (inv[q].payload = inv[p].payload
                   /\ OneChanged(inv[q].event.signature, inv[p].event.signature))
                => Returned(q) /\ inv[q].verdict = "invalid"
             /\ (inv[q].event.signature = inv[p].event.signature
                   /\ OneValueChanged(inv[q].payload, inv[p].payload))
                => Returned(q) /\ inv[q].verdict = "invalid"
       /\ (Over(p) /\ (env.TWILIO_AUTH_TOKEN = <<>> \/ env.WEBHOOK_URL = <<>>
                         \/ inv[p].event.signature = <<>>))
             => Returned(p) /\ inv[p].verdict = "invalid"
       /\ (Over(p) /\ Over(q) /\ SameItems(p, q)
             /\ inv[q].event.signature = inv[p].event.signature)
             => inv[q].pc = inv[p].pc /\ inv[q].verdict = inv[p].verdict

\* the signature of a call that returned true, changed in one character to
\* a character outside ASCII: the call raises
C13_Witness ==
    \E p, q \in Procs :
       /\ Returned(p) /\ inv[p].verdict = "valid"
       /\ inv[q].pc = "raised"
       /\ inv[q].payload = inv[p].payload
       /\ OneChanged(inv[q].event.signature, inv[p].event.signature)

\* two calls with the same URL, secret and signature, the first of which
\* returned true
SameSignature(p, q) ==
    /\ Over(p) /\ Over(q)
    /\ inv[p].verdict = "valid"
    /\ inv[q].event.signature = inv[p].event.signature

\* C17 (as claimed): a signature that validates for one mapping validates
\* for no different mapping.
C17_OnePayload ==
    \A p, q \in Procs :
       (SameSignature(p, q) /\ inv[q].payload # inv[p].payload) =>
          inv[q].verdict # "valid"

\* C17 (amended): a signature that validates for one mapping validates for
\* no different mapping with the same keys that differs from it in the
\* value of one key only, or whose values have the same lengths as its own.
C17_OnePayloadAmended ==
    \A p, q \in Procs :
       (/\ SameSignature(p, q)
        /\ inv[q].payload # inv[p].payload
        /\ DOMAIN inv[q].payload = DOMAIN inv[p].payload
        /\ \/ OneValueChanged(inv[q].payload, inv[p].payload)
           \/ \A key \in DOMAIN inv[p].payload :
                 Len(inv[q].payload[key]) = Len(inv[p].payload[key])) =>
          Returned(q) /\ inv[q].verdict = "invalid"

C17_Witness ==
    \E p, q \in Procs :
       /\ SameSignature(p, q) /\ Returned(q) /\ inv[q].verdict = "invalid"
       /\ DOMAIN inv[p].payload = SigKeys /\ DOMAIN inv[q].payload = SigKeys
       /\ \A key \in SigKeys :
             /\ inv[q].payload[key] # inv[p].payload[key]
             /\ Len(inv[q].payload[key]) = Len(inv[p].payload[key])

\* the state of the orchestrator an operation belongs to: 1 decoded,
\* 2 authenticated, 3 and 4 authorized (sender present, sender allowed),
\* 5 fields extracted, 6 media ingested, 7 log read, 8 logged,
\* 9 dispatched and notified, 10 responded; 0 marks the early exits
Stage(op) ==
    CASE op \in {"decode", "decode_fault"} -> 1
      [] op \in {"validate", "validate_fault"} -> 2
      [] op = "from" -> 3
      [] op = "allow" -> 4
      [] op \in {"parse", "int_fault"} -> 5
      [] op \in {"media_skip", "fetch", "fetch_fault", "media_put",
                 "media_put_fault"} -> 6
      [] op \in {"read", "read_fault"} -> 7
      [] op \in {"write", "write_fault"} -> 8
      [] op \in {"invoke", "invoke_fault", "qa_put", "qa_put_fault",
                 "no_processor", "email", "email_fault", "email_skip"} -> 9
      [] op = "respond" -> 10
      [] OTHER -> 0

\* op was performed, and before it an operation of stage n
Preceded(trace, op, n) ==
    \E k \in 1..Len(trace) : trace[k] = op /\ \E m \in 1..(k - 1) : Stage(trace[m]) = n

\* a finished request that did not respond 200 has not written the log
ExitsBeforeLogged(p) ==
    (Done(p) /\ inv[p].response.statusCode # 200) => "write" \notin Ops(p)

\* C14 (as claimed): in every request the signature verdict and the
\* allow-list verdict are both reached before the payload is decoded, and
\* requests exit to rejected or errored only before logged.
C14_StateOrder ==
    \A p \in Procs :
       /\ "decode" \in Ops(p) =>
             /\ Preceded(inv[p].did, "decode", 2)
             /\ Preceded(inv[p].did, "decode", 4)
       /\ ExitsBeforeLogged(p)

\* C14 (amended): the payload is decoded first; the signature verdict is
\* reached on the decoded payload, then the allow-list verdict, and only
\* then are the message fields extracted, media ingested, the log read and
\* written, the commands dispatched, the notification sent and the request
\* answered, each after the one before; requests exit to rejected or
\* errored only before logged.
C14_StateOrderAmended ==
    \A p \in Procs :
       LET did == SelectSeq(inv[p].did, LAMBDA op : Stage(op) > 0)
       IN /\ \A k \in 1..(Len(did) - 1) : Stage(did[k]) <= Stage(did[k + 1])
          /\ did # <<>> => Stage(did[1]) = 1
          /\ \A k \in 2..Len(did) :
                Stage(did[k]) > Stage(did[k - 1]) =>
                   \/ Stage(did[k]) = Stage(did[k - 1]) + 1
                   \/ Stage(did[k]) = 7 /\ Stage(did[k - 1]) = 5
          /\ "from" \in Ops(p) => inv[p].verdict = "valid"
          /\ "parse" \in Ops(p) =>
                inv[p].from_number \in env.ALLOWED_PHONE_NUMBERS
          /\ "respond" \in Ops(p) =>
                /\ Done(p) /\ "write" \in Ops(p)
                /\ inv[p].did[Len(inv[p].did)] = "respond"
                /\ inv[p].did[Len(inv[p].did) - 1]
                      \in {"email", "email_fault", "email_skip"}
          /\ ExitsBeforeLogged(p)

C14_Witness ==
    \E p \in Procs :
       /\ Done(p) /\ inv[p].response = EmptyTwiml
       /\ {Stage(inv[p].did[k]) : k \in 1..Len(inv[p].did)} = 1..10

EmailOps == {"email", "email_fault", "email_skip"}

\* the number of handler calls among the first k operations
CallsUpTo(trace, k) == Len(Calls(SubSeq(trace, 1, k)))

\* C16: in the question handler a failed transcript write is absorbed: the
\* answer notification is still attempted and the command is recorded as
\* succeeded; a failed inference is recorded as a failed result, with no
\* transcript write and no answer notification (the only send that can
\* follow is the final notification of the request); a transcript object
\* exists for a first delivery exactly when its transcript write succeeded;
\* in both cases the main log holds what was written before dispatch and
\* was written once.
C16_QuestionFaults ==
    \A p \in Procs : "write" \in Ops(p) =>
       LET did == inv[p].did
       IN /\ \A k \in 1..Len(did) :
                /\ did[k] = "qa_put_fault" =>
                      /\ did[k - 1] = "invoke"
                      /\ k < Len(did) /\ did[k + 1] \in EmailOps
                      /\ inv[p].results[CallsUpTo(did, k)].success
                /\ did[k] = "invoke_fault" =>
                      /\ ~inv[p].results[CallsUpTo(did, k)].success
                      /\ \/ k = Len(did)
                         \/ did[k + 1] \in {"invoke", "invoke_fault", "no_processor"}
                         \/ /\ did[k + 1] \in EmailOps
                            /\ k + 2 = Len(did) /\ did[k + 2] = "respond"
          /\ nreq = 1 =>
                (qa_key(inv[p].message_sid) \in DOMAIN s3 <=> "qa_put" \in Ops(p))
          /\ s3[inv[p].log_key] = inv[p].updated_log
          /\ Len(SelectSeq(hist, LAMBDA r : r.entry = inv[p].log_entry)) = 1

C16_Witness ==
    \E p \in Procs :
       /\ Done(p) /\ inv[p].response = EmptyTwiml
       /\ Calls(inv[p].did) = <<"invoke_fault", "invoke">>
       /\ "qa_put_fault" \in Ops(p) /\ "qa_put" \notin Ops(p)
       /\ inv[p].results = <<[action |-> T_question, success |-> FALSE],
                             [action |-> T_question, success |-> TRUE]>>
       /\ qa_key(inv[p].message_sid) \notin DOMAIN s3

\* p and q are deliveries from different senders that got as far as the log key
TwoSenders(p, q) ==
    /\ "parse" \in Ops(p) /\ "parse" \in Ops(q)
    /\ "int_fault" \notin Ops(p) /\ "int_fault" \notin Ops(q)
    /\ inv[p].from_number # inv[q].from_number

\* the log of p was written only by deliveries of senders with the
\* alphanumeric characters of the sender of p, never by one of the sender
\* of q; the delivery p is among them, and the log holds what the last of
\* them stored
KeepsOwnEntries(p, q) ==
    LET writes == WritesTo(inv[p].log_key)
    IN /\ \A k \in 1..Len(writes) :
             /\ sanitize_phone_number(writes[k].from_number)
                   = sanitize_phone_number(inv[p].from_number)
             /\ writes[k].from_number # inv[q].from_number
       /\ \E k \in 1..Len(writes) : writes[k].entry = inv[p].log_entry
       /\ s3[inv[p].log_key] = writes[Len(writes)].after

\* sender identities of the form + digits
IsE164(n) ==
    /\ Len(n) > 1 /\ n[1] = "+"
    /\ \A k \in 2..Len(n) : n[k] \in DigitSet

\* C18 (as claimed): deliveries from two different allow-listed senders
\* never use the same log object, and when both were answered 200 the log
\* of each was never written by a delivery of the other sender and holds
\* what its last writer stored.
C18_SenderIsolation ==
    \A p, q \in Procs : TwoSenders(p, q) =>
       /\ inv[p].log_key # inv[q].log_key
       /\ (Done(p) /\ Done(q) /\ inv[p].response = EmptyTwiml
             /\ inv[q].response = EmptyTwiml) => KeepsOwnEntries(p, q)

\* C18 (amended): deliveries from two allow-listed senders whose
\* alphanumeric characters differ, in particular two different senders of
\* the form + digits, never use the same log object, and when both were
\* answered 200 the log of each was never written by a delivery of the
\* other sender and holds what its last writer stored; two senders with the
\* same alphanumeric characters use one log object.
C18_SenderIsolationAmended ==
    \A p, q \in Procs : TwoSenders(p, q) =>
       LET differ == sanitize_phone_number(inv[p].from_number)
                        # sanitize_phone_number(inv[q].from_number)
       IN /\ (IsE164(inv[p].from_number) /\ IsE164(inv[q].from_number)) => differ
          /\ differ <=> inv[p].log_key # inv[q].log_key
          /\ (differ /\ Done(p) /\ Done(q) /\ inv[p].response = EmptyTwiml
                /\ inv[q].response = EmptyTwiml) => KeepsOwnEntries(p, q)

C18_Witness ==
    \E p, q \in Procs :
       /\ TwoSenders(p, q)
       /\ inv[p].from_number = Phone1 /\ inv[q].from_number = Phone2
       /\ Done(p) /\ Done(q)
       /\ inv[p].response = EmptyTwiml /\ inv[q].response = EmptyTwiml
       /\ inv[p].message_sid # inv[q].message_sid
       /\ {log_key_of(Phone1), log_key_of(Phone2)} \subseteq DOMAIN s3

\* two senders with one log: the entry of the first to write is lost
C18_SharedLog ==
    \E p, q \in Procs :
       /\ TwoSenders(p, q) /\ inv[p].log_key = inv[q].log_key
       /\ Done(p) /\ Done(q)
       /\ inv[p].response = EmptyTwiml /\ inv[q].response = EmptyTwiml
       /\ inv[p].message_sid # inv[q].message_sid
       /\ ~Contains(s3[inv[p].log_key], inv[p].log_entry)

\* the request passed the signature check and the allow-list, and no read
\* or write of its main log faulted
AcceptedAndStored(p) ==
    /\ inv[p].verdict = "valid"
    /\ inv[p].from_number \in env.ALLOWED_PHONE_NUMBERS
    /\ "allow" \in Ops(p)
    /\ Ops(p) \cap {"read_fault", "write_fault"} = {}

\* C19: a request with a valid signature and an allow-listed sender whose
\* main-log operations do not fault never reaches the except clause and
\* finishes logged and answered 200, whatever its other fields hold (a
\* blank, missing or non-numeric NumMedia, missing media URLs, failing
\* media fetches).
C19_AcceptedIsLogged ==
    \A p \in Procs : AcceptedAndStored(p) =>
       /\ "except" \notin Ops(p)
       /\ Done(p) => /\ inv[p].response = EmptyTwiml
                     /\ "write" \in Ops(p)

\* a blank or non-numeric NumMedia ends an accepted request with 500 and
\* nothing logged
C19_Witness ==
    \E p \in Procs :
       /\ AcceptedAndStored(p) /\ Done(p)
       /\ Get(inv[p].payload, K_NumMedia, <<"0">>) = <<>>
       /\ inv[p].response = ProcessingError
       /\ "write" \notin Ops(p) /\ hist = <<>>

---------------------------------------------------------------------------
(* C20: what a request that is not answered 200 leaves in the store.       *)

NotOk(p) == Done(p) /\ inv[p].response.statusCode # 200

\* the objects the invocation has put: media, main log, Q&A transcript
Puts(p) == Ops(p) \cap {"media_put", "write", "qa_put"}

\* C20 as stated: a request answered 400, 403 or 500 created or replaced no
\* log, media or Q&A object.
C20_NonOkLeavesStore ==
    \A p \in Procs : NotOk(p) => Puts(p) = {} /\ inv[p].media_keys = <<>>

\* C20 amended: a request answered 400, 403 or 500 created or replaced no
\* log and no Q&A object; it saved no media object either, unless it is
\* the 500 that follows a fault of the main-log write, which leaves the
\* media objects saved before it in the store.
C20_NonOkLeavesStoreAmended ==
    \A p \in Procs : NotOk(p) =>
       /\ Puts(p) \subseteq {"media_put"}
       /\ inv[p].updated_log = <<>>
       /\ (Puts(p) # {} \/ inv[p].media_keys # <<>>) =>
             /\ inv[p].response = ProcessingError
             /\ "write_fault" \in Ops(p)
             /\ \A k \in 1..Len(inv[p].media_keys) :
                   inv[p].media_keys[k] \in DOMAIN s3

\* an attachment was saved, the log write failed, the answer is 500 and
\* the media object is in the store with no log entry naming it
C20_Witness ==
    \E p \in Procs :
       /\ NotOk(p) /\ "write_fault" \in Ops(p)
       /\ inv[p].media_keys # <<>>
       /\ inv[p].media_keys[1] \in DOMAIN s3 \ DOMAIN preexisting
       /\ hist = <<>>
=============================================================================
